---- MODULE Spec2Model ----
(***************************************************************************)
(* Model of SpeakerDiarization.diarize_audio, its helper                   *)
(* _extract_speaker_embedding and compare_speakers                         *)
(* (src-tauri/python/diarization_inference.py).                            *)
(*                                                                         *)
(* Times are integers counting ticks of 0.05 s, so a turn that lasts one   *)
(* tick is shorter than 0.1 s and a turn of two ticks is not.              *)
(* The diarization pipeline, torchaudio.load and the embedding model are   *)
(* external: the pipeline's output is any sequence of turns over Speakers  *)
(* and Spans, and each extraction either raises (in the loader or in the   *)
(* model) or returns the embedding of the window it was given.             *)
(***************************************************************************)
EXTENDS Integers, Sequences, FiniteSets, TLC

\* Longest turn sequence the pipeline emits in the model.
MaxTurns == 3

\* Longest fingerprint handed to compare_speakers in the model.
MaxDim == 3

\* Significand bits of the model's binary floating-point numbers.  numpy's
\* float64 keeps 53; the arithmetic below is IEEE 754 round-to-nearest-even
\* at this smaller precision, with an exponent range wide enough that nothing
\* in the model overflows or underflows.
Precision == 6

VARIABLES
    pc,                 \* "idle", "loop", "extract", "done"; "blocked" inside a call
                        \* of _extract_speaker_embedding that does not return
    run,                \* number of diarize_audio calls started (at most two are followed)
    deterministic,      \* whether an extraction's success depends on its window only
    embedder,           \* deterministic case: window -> succeeded, as observed so far
    diarization,        \* the pipeline's output: the turns, in emission order
    consumed,           \* turns taken from itertracks so far in this call
    segments,
    speaker_embeddings,
    calls,              \* this call's _extract_speaker_embedding invocations
    caught,             \* exceptions the except clause has handled in this call
    result,             \* this call's return value, None until it returns
    first_result,       \* the first call's return value
    set_order,          \* iteration order of set(ids) in this interpreter, as observed so far
    embedding1,         \* compare_speakers' first argument
    embedding2,         \* compare_speakers' second argument
    similarity          \* compare_speakers' outcome, None until it is called

vars == <<pc, run, deterministic, embedder, diarization, consumed, segments,
          speaker_embeddings, calls, caught, result, first_result, set_order,
          embedding1, embedding2, similarity>>

\* The variables compare_speakers works on; diarize_audio leaves them alone.
compare_vars == <<embedding1, embedding2, similarity>>

Speakers == {"A", "B"}

\* <<start, end>> in ticks: a one-tick turn, a two-tick turn, a turn that
\* ends before it starts, and a turn that starts before the recording.
Spans == {<<0, 1>>, <<1, 3>>, <<3, 2>>, <<-1, 1>>}

\* A turn as itertracks yields it: (turn.start, turn.end, speaker).
Turns == [speaker : Speakers, start : {sp[1] : sp \in Spans}, end : {sp[2] : sp \in Spans}]

PoolTurns == {t \in Turns : <<t.start, t.end>> \in Spans}

\* What the external calls inside _extract_speaker_embedding do on one call.
Behaviours == {"ok", "load_raises", "model_raises"}

None == [tag |-> "None"]

Ndarray(data) == [tag |-> "ndarray", data |-> data]

Raised(exc) == [tag |-> "raise", exc |-> exc]

\* All sequences over S of length at most n.
SeqsUpTo(S, n) == UNION {[1..k -> S] : k \in 0..n}

\* The empty dict {}.
EmptyDict == [k \in {} |-> None]

\* d[k] = v on a dict held as a function.
DictSet(d, k, v) == [x \in (DOMAIN d) \cup {k} |-> IF x = k THEN v ELSE d[x]]

\* d.get(k, default)
DictGet(d, k, default) == IF k \in DOMAIN d THEN d[k] ELSE default

\* Variant: the list outlives the call (an attribute or a mutable default).
NewSegments_Kept == segments

\* `segments = []` at the start of a call.
NewSegments == <<>>

\* `speaker_embeddings = {}` at the start of a call.
NewSpeakerEmbeddings == EmptyDict

\* Variant: segments.insert(0, segment).
AppendSegment_Front(segs, segment) == <<segment>> \o segs

\* segments.append(segment)
AppendSegment(segs, segment) == Append(segs, segment)

\* Variant: the duration is clamped at zero.
Segment_ClampedDuration(t) ==
    [speaker_id |-> t.speaker, start |-> t.start, end |-> t.end,
     duration |-> IF t.end > t.start THEN t.end - t.start ELSE 0]

\* The segment dict built for one turn.
Segment(t) ==
    [speaker_id |-> t.speaker, start |-> t.start, end |-> t.end,
     duration |-> t.end - t.start]

\* Variant: a turn shorter than 0.1 s (two ticks) is not extracted.
NotAlreadyDone_SkipShort(speaker, embs) ==
    /\ speaker \notin DOMAIN embs
    /\ ~ (LET t == diarization[consumed + 1]
          IN  t.end > t.start /\ t.end - t.start < 2)

\* Variant: the membership test is dropped, every turn is extracted.
NotAlreadyDone_Always(speaker, embs) == TRUE

\* Variant: only a speaker's first turn is extracted.
NotAlreadyDone_FirstTurnOnly(speaker, embs) ==
    \A k \in DOMAIN segments : segments[k].speaker_id # speaker

\* Variant: a turn is extracted whenever the speaker has changed.
NotAlreadyDone_OnSpeakerChange(speaker, embs) ==
    segments = <<>> \/ segments[Len(segments)].speaker_id # speaker

\* `speaker not in speaker_embeddings`
NotAlreadyDone(speaker, embs) == speaker \notin DOMAIN embs

\* The embedding model's output for the window [start, end): a 1 x D array
\* that depends on the window only.
EmbeddingModel(start, end) == <<<<start, end>>>>

\* The body of the try block: what it evaluates to, or the exception it raises.
TryBody(env, start, end) ==
    IF env = "load_raises" THEN Raised("load")
    ELSE IF env = "model_raises" THEN Raised("model")
    ELSE Ndarray(EmbeddingModel(start, end))

\* Variant: only the loader's exception is caught.
ExtractSpeakerEmbedding_CatchLoadOnly(env, start, end) ==
    LET r == TryBody(env, start, end)
    IN  IF r.tag = "raise" /\ r.exc = "load" THEN None ELSE r

\* _extract_speaker_embedding: `except Exception` turns every raise into None.
ExtractSpeakerEmbedding(env, start, end) ==
    LET r == TryBody(env, start, end)
    IN  IF r.tag = "raise" THEN None ELSE r

\* The exceptions the call's except clause handles (printed at line 162).
Caught(env, start, end) ==
    LET r == TryBody(env, start, end)
        e == ExtractSpeakerEmbedding(env, start, end)
    IN  IF r.tag = "raise" /\ e = None THEN {r.exc} ELSE {}

\* Variant: a failed extraction stores an empty embedding for the speaker.
StoreEmbedding_MarkFailed(embs, speaker, embedding) ==
    IF embedding.tag = "ndarray" THEN DictSet(embs, speaker, embedding.data)
    ELSE DictSet(embs, speaker, <<>>)

\* `if embedding is not None: speaker_embeddings[speaker] = embedding.tolist()`
StoreEmbedding(embs, speaker, embedding) ==
    IF embedding.tag = "ndarray" THEN DictSet(embs, speaker, embedding.data) ELSE embs

\* [s["speaker_id"] for s in segments], as a set
SpeakerIds(segs) == {segs[k].speaker_id : k \in DOMAIN segs}

\* The orders list(set(...)) can produce: every arrangement of the set's
\* elements, each once (set iteration order is hash order, not fixed).
ListOfSet(S) ==
    {o \in [1..Cardinality(S) -> S] : \A a, b \in DOMAIN o : a # b => o[a] # o[b]}

\* [s for s in segments if s["speaker_id"] == speaker]
RECURSIVE SpeakerSegments(_, _)
SpeakerSegments(segs, speaker) ==
    IF segs = <<>> THEN <<>>
    ELSE LET rest == SpeakerSegments(Tail(segs), speaker)
         IN  IF Head(segs).speaker_id = speaker THEN <<Head(segs)>> \o rest ELSE rest

\* Variant: the time from the first segment's start to the last one's end.
SumDurations_Extent(segs) ==
    IF segs = <<>> THEN 0 ELSE segs[Len(segs)].end - segs[1].start

\* sum(s["duration"] for s in speaker_segments)
RECURSIVE SumDurations(_)
SumDurations(segs) ==
    IF segs = <<>> THEN 0
    ELSE SumDurations(SubSeq(segs, 1, Len(segs) - 1)) + segs[Len(segs)].duration

\* Variant: a speaker without a fingerprint has no segments counted.
StatsEntry_EmbeddedOnly(segs, speaker, embs) ==
    LET speaker_segments == SpeakerSegments(segs, speaker)
    IN  [total_duration |-> SumDurations(speaker_segments),
         num_segments |-> IF speaker \in DOMAIN embs THEN Len(speaker_segments) ELSE 0,
         embedding |-> DictGet(embs, speaker, <<>>)]

\* The value stored in speaker_stats[speaker].
StatsEntry(segs, speaker, embs) ==
    LET speaker_segments == SpeakerSegments(segs, speaker)
    IN  [total_duration |-> SumDurations(speaker_segments),
         num_segments |-> Len(speaker_segments),
         embedding |-> DictGet(embs, speaker, <<>>)]

\* Variant: each new key goes to the front of the dict's order.
RECURSIVE SpeakerStats_Reversed(_, _, _, _)
SpeakerStats_Reversed(stats, unique_speakers, segs, embs) ==
    IF unique_speakers = <<>> THEN stats
    ELSE LET speaker == Head(unique_speakers)
         IN  SpeakerStats_Reversed([keys |-> <<speaker>> \o stats.keys,
                                    items |-> DictSet(stats.items, speaker,
                                                      StatsEntry(segs, speaker, embs))],
                                   Tail(unique_speakers), segs, embs)

\* Variant: only the speakers that have an embedding get an entry.
RECURSIVE SpeakerStats_OnlyEmbedded(_, _, _, _)
SpeakerStats_OnlyEmbedded(stats, unique_speakers, segs, embs) ==
    IF unique_speakers = <<>> THEN stats
    ELSE LET speaker == Head(unique_speakers)
         IN  SpeakerStats_OnlyEmbedded(
                 IF speaker \in DOMAIN embs
                   THEN [keys |-> Append(stats.keys, speaker),
                         items |-> DictSet(stats.items, speaker,
                                           StatsEntry(segs, speaker, embs))]
                   ELSE stats,
                 Tail(unique_speakers), segs, embs)

\* The loop `for speaker in unique_speakers`: a dict keeps its keys in
\* insertion order, so it is held as the key order and the items.
RECURSIVE SpeakerStats(_, _, _, _)
SpeakerStats(stats, unique_speakers, segs, embs) ==
    IF unique_speakers = <<>> THEN stats
    ELSE LET speaker == Head(unique_speakers)
             keys == IF speaker \in DOMAIN stats.items THEN stats.keys
                     ELSE Append(stats.keys, speaker)
         IN  SpeakerStats([keys |-> keys,
                           items |-> DictSet(stats.items, speaker,
                                             StatsEntry(segs, speaker, embs))],
                          Tail(unique_speakers), segs, embs)

\* Variant: num_speakers counts the segments.
Result_CountSegments(segs, unique_speakers, speaker_stats) ==
    [tag |-> "dict",
     segments |-> segs,
     speakers |-> unique_speakers,
     num_speakers |-> Len(segs),
     speaker_stats |-> speaker_stats]

\* The returned dict.
Result(segs, unique_speakers, speaker_stats) ==
    [tag |-> "dict",
     segments |-> segs,
     speakers |-> unique_speakers,
     num_speakers |-> Len(unique_speakers),
     speaker_stats |-> speaker_stats]


(***************************************************************************)
(* Floating-point arithmetic of compare_speakers.  A finite number is      *)
(* sign * m * 2^e with 0 <= m < 2^Precision, held with m odd (or as zero)  *)
(* so that equal numbers are equal records; the sign of zero is not kept.  *)
(***************************************************************************)

\* Components of the fingerprints handed to compare_speakers.
Components == {-1, 0, 1, 3}

\* Lists of at most MaxDim components.
Fingerprints == SeqsUpTo(Components, MaxDim)

RECURSIVE Pow2(_)
Pow2(n) == IF n = 0 THEN 1 ELSE 2 * Pow2(n - 1)

Abs(i) == IF i < 0 THEN -i ELSE i

\* A significand m is held in Precision bits: m < SignificandLimit.
SignificandLimit == Pow2(Precision)

\* A scaled significand before rounding has all its bits:
\* SignificandLimit / 2 <= n / d < SignificandLimit.
SignificandFloor == Pow2(Precision - 1)

\* A radicand is scaled to at least this, so that its integer square root
\* has Precision + 1 bits.
RadicandFloor == Pow2(2 * Precision)

NaN == [tag |-> "nan"]

Inf(sign) == [tag |-> "inf", sign |-> sign]

Zero == [tag |-> "float", sign |-> 1, m |-> 0, e |-> 0]

\* sign * m * 2^e with the factors of two moved from m into e.
RECURSIVE Canonical(_, _, _)
Canonical(sign, m, e) ==
    IF m = 0 THEN Zero
    ELSE IF m % 2 = 0 THEN Canonical(sign, m \div 2, e + 1)
    ELSE [tag |-> "float", sign |-> sign, m |-> m, e |-> e]

\* The float nearest to sign * (n / d) * 2^e, ties to the even significand
\* (n >= 0, d > 0).
RECURSIVE RoundNearestEven(_, _, _, _)
RoundNearestEven(sign, n, d, e) ==
    IF n = 0 THEN Zero
    ELSE IF n >= d * SignificandLimit THEN RoundNearestEven(sign, n, 2 * d, e + 1)
    ELSE IF n < d * SignificandFloor THEN RoundNearestEven(sign, 2 * n, d, e - 1)
    ELSE LET q == n \div d
             r == n % d
             up == 2 * r > d \/ (2 * r = d /\ q % 2 = 1)
         IN  Canonical(sign, IF up THEN q + 1 ELSE q, e)

\* A Python int or float component as a float64.
FromInt(i) == RoundNearestEven(IF i < 0 THEN -1 ELSE 1, Abs(i), 1, 0)

IsFinite(x) == x.tag = "float"

IsZero(x) == x.tag = "float" /\ x.m = 0

\* x * y
Mul(x, y) ==
    IF x.tag = "nan" \/ y.tag = "nan" THEN NaN
    ELSE IF x.tag = "inf" \/ y.tag = "inf"
           THEN IF IsZero(x) \/ IsZero(y) THEN NaN ELSE Inf(x.sign * y.sign)
    ELSE RoundNearestEven(x.sign * y.sign, x.m * y.m, 1, x.e + y.e)

\* x + y
Add(x, y) ==
    IF x.tag = "nan" \/ y.tag = "nan" THEN NaN
    ELSE IF x.tag = "inf" /\ y.tag = "inf"
           THEN IF x.sign = y.sign THEN x ELSE NaN
    ELSE IF x.tag = "inf" THEN x
    ELSE IF y.tag = "inf" THEN y
    ELSE LET e == IF x.e < y.e THEN x.e ELSE y.e
             n == x.sign * x.m * Pow2(x.e - e) + y.sign * y.m * Pow2(y.e - e)
         IN  RoundNearestEven(IF n < 0 THEN -1 ELSE 1, Abs(n), 1, e)

\* x / y as numpy divides float64 scalars: a zero divisor gives nan or inf
\* (with a RuntimeWarning), not an exception.
Div(x, y) ==
    IF x.tag = "nan" \/ y.tag = "nan" THEN NaN
    ELSE IF x.tag = "inf" THEN IF y.tag = "inf" THEN NaN ELSE Inf(x.sign * y.sign)
    ELSE IF y.tag = "inf" THEN Zero
    ELSE IF y.m = 0 THEN IF x.m = 0 THEN NaN ELSE Inf(x.sign)
    ELSE RoundNearestEven(x.sign * y.sign, x.m, y.m, x.e - y.e)

\* The correctly rounded square root of n * 2^e, n > 0: n is scaled by an
\* even power of two until its integer square root has Precision + 1 bits.
RECURSIVE SqrtScaled(_, _)
SqrtScaled(n, e) ==
    IF e % 2 = 1 THEN SqrtScaled(2 * n, e - 1)
    ELSE IF n < RadicandFloor THEN SqrtScaled(4 * n, e - 2)
    ELSE LET r == CHOOSE k \in SignificandLimit..(2 * SignificandLimit) :
                     k * k <= n /\ n < (k + 1) * (k + 1)
             q == r \div 2
             c == (2 * q + 1) * (2 * q + 1)
             up == n > c \/ (n = c /\ q % 2 = 1)
         IN  Canonical(1, IF up THEN q + 1 ELSE q, (e \div 2) + 1)

\* np.sqrt
Sqrt(x) ==
    IF x.tag = "nan" THEN NaN
    ELSE IF x.tag = "inf" THEN IF x.sign = 1 THEN x ELSE NaN
    ELSE IF x.m = 0 THEN Zero
    ELSE IF x.sign = -1 THEN NaN
    ELSE SqrtScaled(x.m, x.e)

\* The running sum of a[i] * b[i] over the first k components.
RECURSIVE InnerProduct(_, _, _)
InnerProduct(a, b, k) ==
    IF k = 0 THEN Zero
    ELSE Add(InnerProduct(a, b, k - 1), Mul(FromInt(a[k]), FromInt(b[k])))

\* Variant: the pairs of zip(a, b), which stops at the shorter list.
Dot_Zip(a, b) == InnerProduct(a, b, IF Len(a) < Len(b) THEN Len(a) ELSE Len(b))

\* np.dot of two one-dimensional arrays: a ValueError when the shapes are
\* not aligned, else the inner product.
Dot(a, b) ==
    IF Len(a) # Len(b) THEN Raised("ValueError")
    ELSE InnerProduct(a, b, Len(a))

\* np.linalg.norm of a one-dimensional array: sqrt(dot(x, x)).
Norm(x) == Sqrt(InnerProduct(x, x, Len(x)))

\* Variant: similarity + 1 / 2.
ToUnitRange_Precedence(sim) == Add(sim, Div(FromInt(1), FromInt(2)))

\* (similarity + 1) / 2
ToUnitRange(sim) == Div(Add(sim, FromInt(1)), FromInt(2))

\* Variant: the dot product is divided by the first norm twice.
Cosine_FirstNormOnly(dot_product, norm1, norm2) == Div(dot_product, Mul(norm1, norm1))

\* dot_product / (norm1 * norm2)
Cosine(dot_product, norm1, norm2) == Div(dot_product, Mul(norm1, norm2))

\* compare_speakers: the returned float, or the exception it raises.
compare_speakers(e1, e2) ==
    LET dot_product == Dot(e1, e2)
    IN  IF dot_product.tag = "raise" THEN dot_product
        ELSE ToUnitRange(Cosine(dot_product, Norm(e1), Norm(e2)))

Init ==
    /\ pc = "idle"
    /\ run = 0
    /\ deterministic \in BOOLEAN
    /\ embedder = EmptyDict
    /\ diarization = <<>>
    /\ consumed = 0
    /\ segments = <<>>
    /\ speaker_embeddings = EmptyDict
    /\ calls = <<>>
    /\ caught = {}
    /\ result = None
    /\ first_result = None
    /\ set_order = EmptyDict
    /\ embedding1 = <<>>
    /\ embedding2 = <<>>
    /\ similarity = None

\* diarize_audio up to the loop: run the pipeline, start with empty locals.
\* A repeated call is on the same recording, for which the pipeline emits
\* the same turns; the repeat is followed for the deterministic embedder.
CallDiarizeAudio ==
    /\ pc \in {"idle", "done"}
    /\ run \in {0, 1}
    /\ (run = 1) => deterministic
    /\ run' = run + 1
    /\ IF run = 0
         THEN diarization' \in SeqsUpTo(PoolTurns, MaxTurns)
         ELSE diarization' = diarization
    /\ first_result' = IF run = 1 THEN result ELSE first_result
    /\ consumed' = 0
    /\ segments' = NewSegments
    /\ speaker_embeddings' = NewSpeakerEmbeddings
    /\ calls' = <<>>
    /\ caught' = {}
    /\ result' = None
    /\ pc' = "loop"
    /\ UNCHANGED <<deterministic, embedder, set_order, compare_vars>>

\* One turn of the for loop up to the `if speaker not in speaker_embeddings`.
IterTrack ==
    /\ pc = "loop"
    /\ consumed < Len(diarization)
    /\ LET t == diarization[consumed + 1]
       IN  /\ consumed' = consumed + 1
           /\ segments' = AppendSegment(segments, Segment(t))
           /\ pc' = IF NotAlreadyDone(t.speaker, speaker_embeddings)
                      THEN "extract" ELSE "loop"
    /\ UNCHANGED <<run, deterministic, embedder, diarization, speaker_embeddings,
                   calls, caught, result, first_result, set_order, compare_vars>>

\* The call of _extract_speaker_embedding for the current turn and the
\* store that follows it.
ExtractEmbedding ==
    /\ pc = "extract"
    /\ LET t == diarization[consumed]
           window == <<t.start, t.end>>
       IN  \E env \in Behaviours :
             /\ (deterministic /\ window \in DOMAIN embedder)
                   => ((env = "ok") <=> embedder[window])
             /\ LET embedding == ExtractSpeakerEmbedding(env, t.start, t.end)
                IN  /\ calls' = Append(calls, [turn |-> consumed, start |-> t.start,
                                               end |-> t.end, speaker |-> t.speaker,
                                               returned |-> embedding])
                    /\ caught' = caught \cup Caught(env, t.start, t.end)
                    /\ embedder' = IF deterministic
                                     THEN DictSet(embedder, window, env = "ok")
                                     ELSE embedder
                    /\ IF embedding.tag = "raise"
                         THEN /\ pc' = "done"
                              /\ result' = embedding
                              /\ UNCHANGED speaker_embeddings
                         ELSE /\ pc' = "loop"
                              /\ speaker_embeddings' =
                                    StoreEmbedding(speaker_embeddings, t.speaker, embedding)
                              /\ UNCHANGED result
    /\ UNCHANGED <<run, deterministic, diarization, consumed, segments, first_result,
                   set_order, compare_vars>>

\* After the loop: unique_speakers, speaker_stats and the return.  Within
\* one interpreter a set built from the same ids iterates in the same order
\* every time (string hashes are fixed at start-up), so a repeated call sees
\* the order the first one saw.
ComputeStats ==
    /\ pc = "loop"
    /\ consumed = Len(diarization)
    /\ LET ids == [k \in DOMAIN segments |-> segments[k].speaker_id]
       IN  \E unique_speakers \in ListOfSet(SpeakerIds(segments)) :
             /\ ids \in DOMAIN set_order => unique_speakers = set_order[ids]
             /\ set_order' = DictSet(set_order, ids, unique_speakers)
             /\ result' = Result(segments, unique_speakers,
                                 SpeakerStats([keys |-> <<>>, items |-> EmptyDict],
                                              unique_speakers, segments,
                                              speaker_embeddings))
    /\ pc' = "done"
    /\ UNCHANGED <<run, deterministic, embedder, diarization, consumed, segments,
                   speaker_embeddings, calls, caught, first_result, compare_vars>>

Next == CallDiarizeAudio \/ IterTrack \/ ExtractEmbedding \/ ComputeStats

Spec == Init /\ [][Next]_vars

\* A second call on the same recording with an embedder whose outcome may
\* differ from call to call (another file state, another device).
CallDiarizeAudioAgain ==
    /\ pc = "done"
    /\ run = 1
    /\ ~ deterministic
    /\ result.tag = "dict"
    /\ run' = 2
    /\ first_result' = result
    /\ consumed' = 0
    /\ segments' = NewSegments
    /\ speaker_embeddings' = NewSpeakerEmbeddings
    /\ calls' = <<>>
    /\ caught' = {}
    /\ result' = None
    /\ pc' = "loop"
    /\ UNCHANGED <<deterministic, embedder, diarization, set_order, compare_vars>>

RepeatInit == Init /\ ~ deterministic

RepeatNext == Next \/ CallDiarizeAudioAgain

\* Two calls on one recording in one interpreter.
RepeatSpec == RepeatInit /\ [][RepeatNext]_vars

\* torchaudio.load or the embedding model does not return: the code passes
\* no timeout to either and runs them in the calling thread, so the call of
\* _extract_speaker_embedding, and diarize_audio with it, waits for good.
ExtractionHangs ==
    /\ pc = "extract"
    /\ pc' = "blocked"
    /\ UNCHANGED <<run, deterministic, embedder, diarization, consumed, segments,
                   speaker_embeddings, calls, caught, result, first_result, set_order,
                   compare_vars>>

HangNext == Next \/ ExtractionHangs

\* diarize_audio with an embedder that may also fail to return.
HangSpec == Init /\ [][HangNext]_vars

\* A caller holding two fingerprints, before it compares them.
CompareInit ==
    /\ pc = "idle"
    /\ run = 0
    /\ deterministic = TRUE
    /\ embedder = EmptyDict
    /\ diarization = <<>>
    /\ consumed = 0
    /\ segments = <<>>
    /\ speaker_embeddings = EmptyDict
    /\ calls = <<>>
    /\ caught = {}
    /\ result = None
    /\ first_result = None
    /\ set_order = EmptyDict
    /\ embedding1 \in Fingerprints
    /\ embedding2 \in Fingerprints
    /\ similarity = None

\* One call of compare_speakers.
CallCompareSpeakers ==
    /\ similarity = None
    /\ similarity' = compare_speakers(embedding1, embedding2)
    /\ UNCHANGED <<pc, run, deterministic, embedder, diarization, consumed, segments,
                   speaker_embeddings, calls, caught, result, first_result, set_order,
                   embedding1, embedding2>>

CompareNext == CallCompareSpeakers

CompareSpec == CompareInit /\ [][CompareNext]_vars

TypeOK ==
    /\ pc \in {"idle", "loop", "extract", "done", "blocked"}
    /\ run \in 0..2
    /\ consumed \in 0..Len(diarization)
    /\ Len(segments) = consumed
    /\ DOMAIN speaker_embeddings \subseteq Speakers

(***************************************************************************)
(* Vocabulary of the properties.                                           *)
(***************************************************************************)

\* The call has returned a result dict.
Returned == pc = "done" /\ result.tag = "dict"

\* Elements of a sequence.
Range(f) == {f[k] : k \in DOMAIN f}

\* Positions of the input turns of speaker s.
TurnsOf(s) == {k \in DOMAIN diarization : diarization[k].speaker = s}

\* Sum of end - start over the input turns at the positions in K.
RECURSIVE SpanSum(_)
SpanSum(K) ==
    IF K = {} THEN 0
    ELSE LET k == CHOOSE x \in K : TRUE
         IN  (diarization[k].end - diarization[k].start) + SpanSum(K \ {k})

InputSpeakers == {diarization[k].speaker : k \in DOMAIN diarization}

\* Positions in the call log of the extractions that returned an array.
Successes(cls, s) ==
    {k \in DOMAIN cls : cls[k].speaker = s /\ cls[k].returned.tag = "ndarray"}

\* Positions in the call log of the extractions that returned None.
Failures(cls, s) ==
    {k \in DOMAIN cls : cls[k].speaker = s /\ cls[k].returned = None}

\* C1: whenever diarize_audio returns, the keys of speaker_stats, the entries
\* of speakers and the distinct speaker_id values of the segments are the
\* same set, which is the set of speakers of the input turns; speakers lists
\* nobody twice.
C1_SpeakerSetsAgree ==
    Returned =>
        /\ DOMAIN result.speaker_stats.items = Range(result.speakers)
        /\ Range(result.speaker_stats.keys) = Range(result.speakers)
        /\ Range(result.speakers) = SpeakerIds(result.segments)
        /\ Range(result.speakers) = InputSpeakers
        /\ Len(result.speakers) = Cardinality(InputSpeakers)

\* A speaker reappears after a gap and the call has returned.
C1_Witness ==
    /\ Returned
    /\ Len(diarization) = 3
    /\ diarization[1].speaker = "A"
    /\ diarization[2].speaker = "B"
    /\ diarization[3].speaker = "A"
    /\ DOMAIN result.speaker_stats.items = {"A", "B"}

\* C2: whenever diarize_audio returns, each speaker's num_segments is the
\* number of input turns of that speaker and total_duration is the sum of
\* end - start over exactly those turns.
C2_StatsMatchTurns ==
    Returned =>
        \A s \in DOMAIN result.speaker_stats.items :
            /\ result.speaker_stats.items[s].num_segments = Cardinality(TurnsOf(s))
            /\ result.speaker_stats.items[s].total_duration = SpanSum(TurnsOf(s))

\* Speaker A has two turns of different lengths on either side of a turn of B.
C2_Witness ==
    /\ Returned
    /\ Len(diarization) = 3
    /\ TurnsOf("A") = {1, 3}
    /\ diarization[1].end - diarization[1].start = 1
    /\ diarization[3].end - diarization[3].start = 2
    /\ result.speaker_stats.items["A"].total_duration = 3
    /\ result.speaker_stats.items["A"].num_segments = 2
    /\ result.speaker_stats.items["B"].num_segments = 1

\* Every stored fingerprint is the array returned by the first extraction
\* that succeeded for its speaker, that extraction was given its own turn's
\* window, and every earlier turn of the speaker was tried and failed.
FromFirstSuccess(embs, cls) ==
    \A s \in DOMAIN embs :
        \E k \in Successes(cls, s) :
            /\ \A j \in Successes(cls, s) : k <= j
            /\ cls[k].returned.data = embs[s]
            /\ embs[s] = EmbeddingModel(diarization[cls[k].turn].start,
                                        diarization[cls[k].turn].end)
            /\ \A m \in TurnsOf(s) :
                 m < cls[k].turn => \E j \in Failures(cls, s) : cls[j].turn = m

\* C3: within one call a speaker's fingerprint is written at most once: a
\* step writes it only while the speaker has none, a stored fingerprint is
\* never changed or removed by a later turn, and the stored value is the one
\* extracted from the speaker's first turn on which extraction succeeded.
C3_FingerprintSetOnce ==
    [][ (run' = run) =>
          /\ \A s \in DOMAIN speaker_embeddings :
                /\ s \in DOMAIN speaker_embeddings'
                /\ speaker_embeddings'[s] = speaker_embeddings[s]
          /\ FromFirstSuccess(speaker_embeddings', calls') ]_vars

\* A's first extraction failed, the second succeeded, and a later turn of A
\* with another window has been consumed since.
C3_Witness ==
    /\ pc = "loop"
    /\ consumed = 3
    /\ TurnsOf("A") = {1, 2, 3}
    /\ Len(calls) = 2
    /\ calls[1].returned = None
    /\ calls[2].returned.tag = "ndarray"
    /\ diarization[3].start # diarization[2].start
    /\ "A" \in DOMAIN speaker_embeddings

\* Turn m of the input has been taken from the iterator and the loop body
\* has finished with it.
Processed(m) == m < consumed \/ (m = consumed /\ pc # "extract")

\* Positions in the call log of the extractions made for turn m.
CallsFor(m) == {k \in DOMAIN calls : calls[k].turn = m}

\* An extraction for speaker s succeeded on a turn before turn m.
SucceededBefore(s, m) == \E k \in Successes(calls, s) : calls[k].turn < m

\* The result's entry of speaker s counts all of s's turns.
CountsAllTurns(s) ==
    /\ s \in DOMAIN result.speaker_stats.items
    /\ result.speaker_stats.items[s].num_segments = Cardinality(TurnsOf(s))
    /\ result.speaker_stats.items[s].total_duration = SpanSum(TurnsOf(s))

InvalidTurn(t) == t.end <= t.start \/ t.start < 0

InvalidPositions == {k \in DOMAIN diarization : InvalidTurn(diarization[k])}

\* C6 as claimed: when some input turn has end <= start or start < 0 the
\* call ends with an error and no result.
C6_InvalidTurnFails ==
    (pc = "done" /\ InvalidPositions # {}) => result.tag = "raise"

\* C6 (amended): a turn with end <= start or start < 0 does not make the
\* call fail, wherever it occurs: diarize_audio returns a result in which
\* that turn is a segment with duration end - start (zero or negative when
\* end <= start) and is counted in its speaker's num_segments and
\* total_duration.
C6_InvalidTurnAccepted ==
    (pc = "done" /\ InvalidPositions # {}) =>
        /\ result.tag = "dict"
        /\ \A k \in InvalidPositions :
             /\ k \in DOMAIN result.segments
             /\ result.segments[k] =
                   [speaker_id |-> diarization[k].speaker,
                    start |-> diarization[k].start,
                    end |-> diarization[k].end,
                    duration |-> diarization[k].end - diarization[k].start]
             /\ CountsAllTurns(diarization[k].speaker)

\* The call returned although its middle turn ends before it starts and its
\* last turn starts before zero; A's total duration is negative.
C6_Witness ==
    /\ Returned
    /\ Len(diarization) = 3
    /\ ~ InvalidTurn(diarization[1])
    /\ diarization[2].end < diarization[2].start
    /\ diarization[3].start < 0
    /\ TurnsOf("A") = {2}
    /\ result.speaker_stats.items["A"].total_duration < 0

\* A turn shorter than 0.1 s, that is, of fewer than two ticks.
ShortTurn(t) == t.end > t.start /\ t.end - t.start < 2

\* Speakers whose only turn is a short one.
OnlyShort == {s \in InputSpeakers :
                 \E m \in TurnsOf(s) : TurnsOf(s) = {m} /\ ShortTurn(diarization[m])}

\* C7 as claimed: no extraction is invoked for a turn shorter than 0.1 s,
\* and a speaker whose only turn is that short has no fingerprint in the
\* result.
C7_ShortTurnSkipped ==
    /\ \A k \in DOMAIN calls : ~ ShortTurn(diarization[calls[k].turn])
    /\ Returned =>
         \A s \in OnlyShort : result.speaker_stats.items[s].embedding = <<>>

\* C7 (amended): there is no minimum window: a turn shorter than 0.1 s is
\* extracted like any other turn, with its own start and end, whenever its
\* speaker has no fingerprint yet; a speaker whose only turn is that short
\* has the fingerprint that extraction returned, and none exactly when it
\* failed; the turn is counted in num_segments and total_duration.
C7_ShortTurnExtracted ==
    /\ \A m \in DOMAIN diarization :
         (Processed(m) /\ ShortTurn(diarization[m])) =>
            /\ (CallsFor(m) = {}) <=> SucceededBefore(diarization[m].speaker, m)
            /\ \A k \in CallsFor(m) :
                  /\ calls[k].start = diarization[m].start
                  /\ calls[k].end = diarization[m].end
    /\ Returned =>
         \A s \in OnlyShort :
            /\ CountsAllTurns(s)
            /\ result.speaker_stats.items[s].num_segments = 1
            /\ \E k \in DOMAIN calls :
                  /\ calls[k].speaker = s
                  /\ result.speaker_stats.items[s].embedding =
                        IF calls[k].returned = None THEN <<>>
                        ELSE calls[k].returned.data

\* A's only turn lasts one tick, it was extracted, and the result carries
\* the fingerprint.
C7_Witness ==
    /\ Returned
    /\ "A" \in OnlyShort
    /\ Successes(calls, "A") # {}
    /\ result.speaker_stats.items["A"].embedding # <<>>
    /\ result.speaker_stats.items["A"].total_duration = 1

\* C8: the segments of the result are the input turns, one for one, each
\* with its speaker_id, start and end, in emission order.
C8_SegmentsMirrorTurns ==
    Returned =>
        /\ Len(result.segments) = Len(diarization)
        /\ \A k \in DOMAIN diarization :
             /\ result.segments[k].speaker_id = diarization[k].speaker
             /\ result.segments[k].start = diarization[k].start
             /\ result.segments[k].end = diarization[k].end

\* Three turns emitted out of start order have been returned.
C8_Witness ==
    /\ Returned
    /\ Len(result.segments) = 3
    /\ diarization[1].start > diarization[2].start
    /\ diarization[3].start > diarization[2].start
    /\ diarization[1].speaker # diarization[2].speaker

\* Position of the first input turn of speaker s.
FirstTurn(s) == CHOOSE m \in TurnsOf(s) : \A n \in TurnsOf(s) : m <= n

\* The sequence lists its speakers by first turn.
FirstSeenOrder(order) ==
    \A a, b \in DOMAIN order : a < b => FirstTurn(order[a]) < FirstTurn(order[b])

\* No element occurs twice.
Injective(order) == \A a, b \in DOMAIN order : a # b => order[a] # order[b]

\* C9 as claimed: speakers and the keys of speaker_stats are in first-seen
\* order.
C9_FirstSeenOrder ==
    Returned =>
        /\ FirstSeenOrder(result.speakers)
        /\ FirstSeenOrder(result.speaker_stats.keys)

\* C9 (amended): the speakers list and the keys of speaker_stats are
\* iterated in the same order as each other, each speaker once; that order
\* is the iteration order of a set of the speaker ids and need not be
\* first-seen order.
C9_SameOrder ==
    Returned =>
        /\ result.speaker_stats.keys = result.speakers
        /\ Injective(result.speakers)
        /\ Range(result.speakers) = InputSpeakers

\* A spoke first, yet B is listed first in both.
C9_Witness ==
    /\ Returned
    /\ diarization # <<>>
    /\ diarization[1].speaker = "A"
    /\ result.speakers = <<"B", "A">>
    /\ result.speaker_stats.keys = <<"B", "A">>

\* C10: a second call on the same turns with the same deterministic
\* embedder returns the same speaker statistics as the first: same speakers,
\* same total_duration, num_segments and embedding for each.
C10_Idempotent ==
    (run = 2 /\ pc = "done" /\ deterministic) =>
        /\ result.tag = first_result.tag
        /\ Range(result.speakers) = Range(first_result.speakers)
        /\ result.speaker_stats.items = first_result.speaker_stats.items

\* The second call has returned; A has a fingerprint taken after a failure
\* and B has none.
C10_Witness ==
    /\ run = 2
    /\ Returned
    /\ deterministic
    /\ TurnsOf("A") = {1, 3}
    /\ Len(calls) = 3
    /\ calls[1].returned = None
    /\ result.speaker_stats.items["A"].embedding # <<>>
    /\ result.speaker_stats.items["B"].embedding = <<>>

(***************************************************************************)
(* Vocabulary of the properties of compare_speakers.                       *)
(***************************************************************************)

\* compare_speakers has been called.
Compared == similarity # None

\* The exact dot product and squared norm, as integers.
RECURSIVE ExactDot(_, _, _)
ExactDot(a, b, k) == IF k = 0 THEN 0 ELSE ExactDot(a, b, k - 1) + a[k] * b[k]

ExactNormSq(a) == ExactDot(a, a, Len(a))

\* Two fingerprints of the same length, neither of norm zero.
ValidPair ==
    /\ Len(embedding1) = Len(embedding2)
    /\ ExactNormSq(embedding1) # 0
    /\ ExactNormSq(embedding2) # 0

\* The score is a number that is a whole multiple of 2^-(Precision + 1).
Gridded(x) == x.tag = "float" /\ x.e + Precision + 1 >= 0

\* The score in units of 2^-(Precision + 1); 1.0 is OneUnits.
Units(x) == x.sign * x.m * Pow2(x.e + Precision + 1)

OneUnits == Pow2(Precision + 1)

\* Four units of roundoff, 4 * 2^-Precision, in the same units.
Tolerance == 4 * (OneUnits \div SignificandLimit)

Negated(a) == [k \in DOMAIN a |-> -a[k]]

\* C11 as claimed: for fingerprints of equal length and non-zero norm the
\* returned score is a number between 0 and 1 inclusive.
C11_ScoreInUnitInterval ==
    (Compared /\ ValidPair) =>
        /\ Gridded(similarity)
        /\ 0 <= Units(similarity)
        /\ Units(similarity) <= OneUnits

\* C12: for every valid pair, compare_speakers(a, b) and
\* compare_speakers(b, a) are the same float.
C12_Symmetric ==
    (Compared /\ ValidPair) =>
        /\ IsFinite(similarity)
        /\ similarity = compare_speakers(embedding2, embedding1)

\* Two different fingerprints of different norms have been compared.
C12_Witness ==
    /\ Compared
    /\ ValidPair
    /\ embedding1 = <<1, 0, -1>>
    /\ embedding2 = <<1, 1, 1>>
    /\ Units(similarity) = OneUnits \div 2

\* C13 as claimed: when either fingerprint has norm zero the call fails
\* with an error and returns no number.
C13_ZeroNormRaises ==
    (/\ Compared
     /\ Len(embedding1) = Len(embedding2)
     /\ (ExactNormSq(embedding1) = 0 \/ ExactNormSq(embedding2) = 0))
        => similarity.tag = "raise"

\* C14: when the two fingerprints differ in length the call raises (numpy's
\* ValueError for shapes that are not aligned) and returns no score.
C14_LengthMismatchRaises ==
    (Compared /\ Len(embedding1) # Len(embedding2)) =>
        similarity = Raised("ValueError")

\* A fingerprint of two components has been compared with one of three.
C14_Witness ==
    /\ Compared
    /\ embedding1 = <<1, 0>>
    /\ embedding2 = <<1, 0, 1>>
    /\ similarity.tag = "raise"

\* xn / xd <= dot / sqrt(d), for xd > 0 and d > 0, by signs and squares.
BelowCosine(xn, xd, dot, d) ==
    IF xn <= 0 /\ dot >= 0 THEN TRUE
    ELSE IF xn > 0 /\ dot < 0 THEN FALSE
    ELSE IF xn > 0 THEN xn * xn * d <= dot * dot * xd * xd
    ELSE xn * xn * d >= dot * dot * xd * xd

\* The score is within Tolerance of (cos + 1) / 2, cos being the exact
\* cosine of the two fingerprints.
NearHalfCosinePlusOne ==
    LET dot == ExactDot(embedding1, embedding2, Len(embedding1))
        d == ExactNormSq(embedding1) * ExactNormSq(embedding2)
        c == 2 * Units(similarity) - OneUnits
    IN  /\ BelowCosine(c - 2 * Tolerance, OneUnits, dot, d)
        /\ BelowCosine(-(c + 2 * Tolerance), OneUnits, -dot, d)

\* C15 as claimed: a fingerprint compared with itself scores 1, orthogonal
\* fingerprints score 0.5 and a fingerprint compared with its negation
\* scores 0.
C15_ExactScores ==
    (Compared /\ ValidPair) =>
        /\ Gridded(similarity)
        /\ embedding1 = embedding2 => Units(similarity) = OneUnits
        /\ ExactDot(embedding1, embedding2, Len(embedding1)) = 0
              => 2 * Units(similarity) = OneUnits
        /\ embedding1 = Negated(embedding2) => Units(similarity) = 0

\* C15 (amended): compare_speakers returns the float64 evaluation of
\* (cos(a, b) + 1) / 2, which is the exact value up to rounding only: for
\* fingerprints whose dot product and squared norms are computed exactly
\* the score is within four units of roundoff of (cos + 1) / 2; a non-zero
\* fingerprint compared with itself scores 1 within that distance, with its
\* negation 0 within that distance, and orthogonal fingerprints such as
\* [1,0,0] and [0,1,0] score exactly 0.5.
C15_ScoresUpToRounding ==
    (Compared /\ ValidPair) =>
        /\ Gridded(similarity)
        /\ NearHalfCosinePlusOne
        /\ embedding1 = embedding2 =>
              /\ Units(similarity) >= OneUnits - Tolerance
              /\ Units(similarity) <= OneUnits + Tolerance
        /\ ExactDot(embedding1, embedding2, Len(embedding1)) = 0
              => 2 * Units(similarity) = OneUnits
        /\ embedding1 = Negated(embedding2) =>
              /\ Units(similarity) >= -Tolerance
              /\ Units(similarity) <= Tolerance

\* [1,0,0] and [0,1,0] have been compared and scored 0.5.
C15_Witness ==
    /\ Compared
    /\ embedding1 = <<1, 0, 0>>
    /\ embedding2 = <<0, 1, 0>>
    /\ similarity = [tag |-> "float", sign |-> 1, m |-> 1, e |-> -1]

(***************************************************************************)
(* Properties of the returned dict and of the extraction calls.            *)
(***************************************************************************)

\* C16: every returned result has the keys callers read, num_speakers is
\* the length of speakers and the number of keys of speaker_stats, every
\* segment's duration is its end minus its start, and every speaker's entry
\* has an embedding field, which is the empty list when the speaker has no
\* fingerprint.
C16_ResultShape ==
    Returned =>
        /\ {"segments", "speakers", "num_speakers", "speaker_stats"} \subseteq DOMAIN result
        /\ result.num_speakers = Len(result.speakers)
        /\ result.num_speakers = Len(result.speaker_stats.keys)
        /\ result.num_speakers = Cardinality(DOMAIN result.speaker_stats.items)
        /\ \A k \in DOMAIN result.segments :
              LET s == result.segments[k]
              IN  /\ DOMAIN s = {"speaker_id", "start", "end", "duration"}
                  /\ s.duration = s.end - s.start
        /\ \A s \in DOMAIN result.speaker_stats.items :
              LET entry == result.speaker_stats.items[s]
              IN  /\ DOMAIN entry = {"total_duration", "num_segments", "embedding"}
                  /\ s \notin DOMAIN speaker_embeddings => entry.embedding = <<>>

\* Three segments of two speakers, one backwards in time, and B has no
\* fingerprint.
C16_Witness ==
    /\ Returned
    /\ Len(result.segments) = 3
    /\ result.num_speakers = 2
    /\ InputSpeakers = {"A", "B"}
    /\ \E k \in DOMAIN result.segments : result.segments[k].duration < 0
    /\ "A" \in DOMAIN speaker_embeddings
    /\ "B" \notin DOMAIN speaker_embeddings
    /\ result.speaker_stats.items["B"].embedding = <<>>

\* The call is not running, or it can take a step.
CanProceed == pc \in {"idle", "done"} \/ ENABLED HangNext

\* C17 as claimed: the call always comes to its end, also when an
\* extraction does not return on its own: a call that has started is never
\* left without a next step.
C17_AlwaysTerminates == CanProceed

\* Every turn of speaker s has an extraction in the call log that failed.
FailedOnEveryTurn(s) ==
    \A m \in TurnsOf(s) : \E k \in Failures(calls, s) : calls[k].turn = m

WithoutEmbeddings(res) ==
    [segments |-> res.segments,
     speakers |-> res.speakers,
     num_speakers |-> res.num_speakers,
     keys |-> res.speaker_stats.keys,
     stats |-> [s \in DOMAIN res.speaker_stats.items |->
                  [total_duration |-> res.speaker_stats.items[s].total_duration,
                   num_segments |-> res.speaker_stats.items[s].num_segments]]]

\* C19: two calls over the same turns, whatever their extractions did,
\* return results with the same segments, speakers, num_speakers and, per
\* speaker, total_duration and num_segments: they differ at most in the
\* embedding fields.
C19_OnlyEmbeddingsDiffer ==
    (run = 2 /\ Returned /\ ~ deterministic) =>
        WithoutEmbeddings(result) = WithoutEmbeddings(first_result)

\* The first call took a fingerprint for A and none for B, the second one
\* none for A and one for B.
C19_Witness ==
    /\ run = 2
    /\ Returned
    /\ ~ deterministic
    /\ Len(diarization) = 3
    /\ InputSpeakers = {"A", "B"}
    /\ first_result.speaker_stats.items["A"].embedding # <<>>
    /\ first_result.speaker_stats.items["B"].embedding = <<>>
    /\ result.speaker_stats.items["A"].embedding = <<>>
    /\ result.speaker_stats.items["B"].embedding # <<>>

\* C20: every extraction call is made for a turn already taken from the
\* pipeline, with that turn's speaker, start and end, at most once per
\* turn and in turn order, and never for a speaker for whom an earlier call
\* succeeded; the call is about to be made only while the speaker has no
\* stored fingerprint; there are never more calls than turns.
C20_ExtractOnlyWhenMissing ==
    /\ \A k \in DOMAIN calls :
          LET c == calls[k]
          IN  /\ c.turn \in 1..consumed
              /\ c.speaker = diarization[c.turn].speaker
              /\ c.start = diarization[c.turn].start
              /\ c.end = diarization[c.turn].end
              /\ \A j \in 1..(k - 1) :
                    /\ calls[j].turn < c.turn
                    /\ ~ (calls[j].speaker = c.speaker /\ calls[j].returned.tag = "ndarray")
    /\ pc = "extract" => diarization[consumed].speaker \notin DOMAIN speaker_embeddings
    /\ Len(calls) <= consumed
    /\ Len(calls) <= Len(diarization)

\* A failed on its first turn, succeeded on its second and was not
\* extracted on its third.
C20_Witness ==
    /\ Returned
    /\ Cardinality(TurnsOf("A")) = 3
    /\ Len(calls) = 2
    /\ calls[1].returned = None
    /\ calls[2].returned.tag = "ndarray"
    /\ calls[2].turn = 2

====
